---------------------------- MODULE Spec2Model ----------------------------
(***************************************************************************)
(* Model of the paper-search request handlers (api/search.py,              *)
(* api/autocomplete.py, backend/main.py) and of the index provisioning     *)
(* script (scripts/setup_indexes.py).                                      *)
(*                                                                         *)
(* Python dicts are functions with a string domain; a missing key is a     *)
(* key outside DOMAIN.  Python None is the value NONE.  Scores are kept    *)
(* in hundredths, so that the multipliers 1.3 and 1.2 are the exact        *)
(* integer factors 130/100 and 120/100.                                    *)
(***************************************************************************)
EXTENDS Integers, Sequences, FiniteSets, TLC

VARIABLES
    \* ---- one serving process (a module) handling requests one by one
    module,          \* which module this process runs
    endpoint,        \* the endpoint of the request being handled
    pc,              \* position of the handler
    request_data,    \* the parsed request body (a dict)
    search_mode,     \* search_papers' local search_mode
    ranker,          \* search_papers' FunctionScore functions, <<>> for None
    calls,           \* outbound calls made while handling this request
    raw,             \* result[0] as the store returned it
    result,          \* result[0] after the branch's post-processing
    papers,          \* the formatted papers / titles
    statuses,        \* status lines sent for this request
    body,            \* the body written last
    exc,             \* the exception being handled, NONE if none
    milvus_client,   \* the module global _milvus_client (FALSE for None)
    openai_client,   \* the module global _openai_client (FALSE for None)
    \* ---- threads of one process racing on the lazy getters
    tpc,             \* position of each thread
    tmp,             \* the handle a thread has constructed and not yet stored
    got,             \* the handles each getter returned to a thread (0: none yet)
    g_milvus,        \* the global _milvus_client (0 for None)
    g_openai,        \* the global _openai_client (0 for None)
    constructed,     \* how many times each constructor ran
    \* ---- runs of add_ngram_index against one store
    indexes,         \* the store's indexes on the title field
    rpc,             \* position / outcome of each run
    existing_indexes,\* each run's list_indexes snapshot
    todo,            \* the names a run has still to describe
    error_msg        \* the message of the exception create_index raised, <<>> if none

httpVars == <<module, endpoint, pc, request_data, search_mode, ranker, calls,
              raw, result, papers, statuses, body, exc, milvus_client, openai_client>>
clientVars == <<tpc, tmp, got, g_milvus, g_openai, constructed>>
indexVars == <<indexes, rpc, existing_indexes, todo, error_msg>>
vars == <<httpVars, clientVars, indexVars>>

NONE == "<None>"

-----------------------------------------------------------------------------
(* Bounds *)
MaxHits == 3        \* longest hit list the store returns
MaxLen == 4         \* longest autocomplete query (characters)
NumThreads == 2     \* threads calling the getters concurrently
NumRuns == 2        \* runs of add_ngram_index

-----------------------------------------------------------------------------
(* dicts *)
EmptyDict == [k \in {} |-> NONE]
With(d, k, v) == [x \in DOMAIN d \cup {k} |-> IF x = k THEN v ELSE d[x]]
Get(d, k, default) == IF k \in DOMAIN d THEN d[k] ELSE default

\* d.get(k) or {} (the request bodies drawn here carry a dict or no key)
GetOrEmpty(d, k) == Get(d, k, EmptyDict)


-----------------------------------------------------------------------------
(* Requests of the search endpoints *)
CURRENT_YEAR_API == 2025
CURRENT_YEAR_BACKEND == 2026
DefaultLimit == 10

OptKey(d, k, vals) == {d} \cup {With(d, k, v) : v \in vals}
OptKeyIf(d, cond, k, vals) == IF cond \in DOMAIN d THEN OptKey(d, k, vals) ELSE {d}

CustomDecay == [origin |-> 2020]
CustomBoost == [citation_thresholds |-> <<5, 50, 500>>, weights |-> <<105, 110, 120>>]
ShortBoost == [citation_thresholds |-> <<5, 50>>]

\* the flags shared by both search entry points
RankingRequests(base) ==
    LET a == UNION {OptKey(d, "use_time_decay", {TRUE}) : d \in base}
        b == UNION {OptKeyIf(d, "use_time_decay", "time_decay_params", {CustomDecay}) : d \in a}
        c == UNION {OptKey(d, "use_boost", {TRUE}) : d \in b}
    IN  UNION {OptKeyIf(d, "use_boost", "boost_params", {CustomBoost, ShortBoost}) : d \in c}

\* JSON bodies POSTed to api/search.py
SearchRequests ==
    LET a == OptKey(With(EmptyDict, "query", "q"), "search_mode",
                    {"semantic", "keyword", "hybrid", "fuzzy"})
        b == UNION {OptKey(d, "highlight_mode", {"lexical", "semantic"}) : d \in a}
        c == UNION {OptKey(d, "use_boost_ranker", {TRUE}) : d \in b}
        e == UNION {OptKey(d, "filter", {"year > 2000"}) : d \in c}
    IN  RankingRequests(e)

\* SearchRequest bodies accepted by backend/main.py
BackendSearchRequests ==
    RankingRequests(OptKey(With(EmptyDict, "query", "q"), "highlight_mode",
                           {"lexical", "semantic"}))

-----------------------------------------------------------------------------
(* search_papers: option extraction and ranker construction *)
Truthy(d, k) == Get(d, k, FALSE) = TRUE

HighlightMode(rd) == Get(rd, "highlight_mode", "none")

\* faulty variant: highlight_mode "lexical" forces keyword whatever the request says
SearchModeOf_InferenceWins(rd) ==
    IF HighlightMode(rd) = "lexical" THEN "keyword" ELSE Get(rd, "search_mode", "semantic")

\* api/search.py: explicit search_mode, else inferred from highlight_mode
SearchModeOf(rd) ==
    LET sm == Get(rd, "search_mode", NONE)
    IN  IF sm = NONE
        THEN IF HighlightMode(rd) = "lexical" THEN "keyword" ELSE "semantic"
        ELSE sm

\* backend/main.py has no search_mode: the branch taken is named here
BackendModeOf(rd) == IF HighlightMode(rd) = "lexical" THEN "keyword" ELSE "semantic"

TimeDecayFunction(rd, current_year) ==
    LET p == GetOrEmpty(rd, "time_decay_params")
    IN  [name |-> "time_decay_exp",
         input_field_names |-> <<"year">>,
         params |-> [reranker |-> "decay", function |-> "exp",
                     origin |-> Get(p, "origin", current_year),
                     offset |-> Get(p, "offset", 5),
                     decay |-> Get(p, "decay", 80),
                     scale |-> Get(p, "scale", 8)]]

Thresholds(rd) == Get(GetOrEmpty(rd, "boost_params"), "citation_thresholds", <<10, 100, 1000>>)
Weights(rd) == Get(GetOrEmpty(rd, "boost_params"), "weights", <<110, 120, 150>>)

\* thresholds[2] / weights[2] raise IndexError on a shorter list
BoostIndexError(rd) ==
    Truthy(rd, "use_boost") /\ (Len(Thresholds(rd)) < 3 \/ Len(Weights(rd)) < 3)

\* faulty variant: the second tier starts at the first threshold
BoostFunctions_OverlappingTiers(rd) ==
    LET t == Thresholds(rd)
        w == Weights(rd)
    IN  << [name |-> "boost_10", input_field_names |-> <<>>,
            params |-> [reranker |-> "boost", weight |-> w[1],
                        filter |-> [field |-> "citationcount", gt |-> t[1], le |-> t[2]]]],
           [name |-> "boost_100", input_field_names |-> <<>>,
            params |-> [reranker |-> "boost", weight |-> w[2],
                        filter |-> [field |-> "citationcount", gt |-> t[1], le |-> t[3]]]],
           [name |-> "boost_1000", input_field_names |-> <<>>,
            params |-> [reranker |-> "boost", weight |-> w[3],
                        filter |-> [field |-> "citationcount", gt |-> t[3]]]] >>

\* the three citation tiers
BoostFunctions(rd) ==
    LET t == Thresholds(rd)
        w == Weights(rd)
    IN  << [name |-> "boost_10", input_field_names |-> <<>>,
            params |-> [reranker |-> "boost", weight |-> w[1],
                        filter |-> [field |-> "citationcount", gt |-> t[1], le |-> t[2]]]],
           [name |-> "boost_100", input_field_names |-> <<>>,
            params |-> [reranker |-> "boost", weight |-> w[2],
                        filter |-> [field |-> "citationcount", gt |-> t[2], le |-> t[3]]]],
           [name |-> "boost_1000", input_field_names |-> <<>>,
            params |-> [reranker |-> "boost", weight |-> w[3],
                        filter |-> [field |-> "citationcount", gt |-> t[3]]]] >>

BoostRankerFunctions ==
    << [name |-> "boost_ranker_recency", input_field_names |-> <<>>,
        params |-> [reranker |-> "boost", weight |-> 130,
                    filter |-> [field |-> "year", ge |-> 2022]]],
       [name |-> "boost_ranker_citations", input_field_names |-> <<>>,
        params |-> [reranker |-> "boost", weight |-> 120,
                    filter |-> [field |-> "citationcount", ge |-> 500]]] >>

\* the list `functions` of api/search.py (an empty list gives ranker = None)
Functions(rd) ==
    (IF Truthy(rd, "use_time_decay") THEN <<TimeDecayFunction(rd, CURRENT_YEAR_API)>> ELSE <<>>)
    \o (IF Truthy(rd, "use_boost") THEN BoostFunctions(rd) ELSE <<>>)
    \o (IF Truthy(rd, "use_boost_ranker") THEN BoostRankerFunctions ELSE <<>>)

\* the list `functions` of backend/main.py
BackendFunctions(rd) ==
    (IF Truthy(rd, "use_time_decay") THEN <<TimeDecayFunction(rd, CURRENT_YEAR_BACKEND)>> ELSE <<>>)
    \o (IF Truthy(rd, "use_boost") THEN BoostFunctions(rd) ELSE <<>>)

-----------------------------------------------------------------------------
(* The store's hits and the calls made to it *)
Hit1 == [id |-> 1, score |-> 1300,
         entity |-> [corpusid |-> 11, title |-> "t1", year |-> 2020,
                     citationcount |-> 10, url |-> "u1"],
         highlight |-> [abstract |-> [fragments |-> <<"<mark>a1</mark>">>]]]
Hit2 == [id |-> 2, score |-> 1000,
         entity |-> [corpusid |-> 12, title |-> "t2", year |-> 2022,
                     citationcount |-> 10, url |-> "u2"],
         highlight |-> [title |-> [field |-> "title"]]]
Hit3 == [id |-> 3, distance |-> 1000, corpusid |-> 13, title |-> "t3",
         year |-> 2020, citationcount |-> 500]
Hit4 == [id |-> 4, year |-> 2024, citationcount |-> 900, url |-> "u4",
         entity |-> [title |-> "t4"],
         highlight |-> [title |-> [fragments |-> <<"<mark>t4</mark>", "t4">>]]]
Hit5 == [score |-> 1000, distance |-> 7,
         entity |-> [corpusid |-> 15, year |-> 2023, citationcount |-> 600, url |-> "u5"],
         highlight |-> [title |-> [fragments |-> <<>>]]]
Hits == {Hit1, Hit2, Hit3, Hit4, Hit5}

\* result[0] of a store reply: up to MaxHits distinct hits, at most `limit`, any order
RECURSIVE HitLists(_)
HitLists(n) ==
    IF n = 0 THEN {<<>>}
    ELSE LET shorter == HitLists(n - 1)
         IN  shorter \cup {Append(l, h) : l \in {x \in shorter : Len(x) = n - 1},
                                         h \in Hits}
Distinct(l) == \A i, j \in 1..Len(l) : i # j => l[i] # l[j]
Min(a, b) == IF a < b THEN a ELSE b
StoreReplies(limit) == {l \in HitLists(Min(limit, MaxHits)) : Distinct(l)}

LexicalHighlighter ==
    [kind |-> "LexicalHighlighter", pre_tags |-> <<"<mark class='lexical'>">>,
     post_tags |-> <<"</mark>">>, fragment_offset |-> 100, fragment_size |-> 1000,
     highlight_search_text |-> TRUE]

SemanticHighlighter(query) ==
    [kind |-> "SemanticHighlighter", queries |-> <<query>>, input_fields |-> <<"title">>,
     pre_tags |-> <<"<mark class='semantic'>">>, post_tags |-> <<"</mark>">>]

OutputFields == <<"corpusid", "title", "year", "citationcount", "url">>
Embedding(query) == <<"embedding", query>>

WithIf(d, cond, k, v) == IF cond THEN With(d, k, v) ELSE d

\* api/search.py: the hybrid_search call
HybridCall(rd) ==
    LET query == Get(rd, "query", "")
        limit == Get(rd, "limit", DefaultLimit)
        filter_expr == Get(rd, "filter", "")
        dense_req == [data |-> Embedding(query), anns_field |-> "vector",
                      param |-> EmptyDict, limit |-> limit]
        sparse_req == [data |-> <<query>>, anns_field |-> "title_sparse",
                       param |-> [metric_type |-> "BM25"], limit |-> limit]
        kw == [reqs |-> <<dense_req, sparse_req>>, ranker |-> "RRFRanker",
               limit |-> limit, output_fields |-> OutputFields]
    IN  [api |-> "hybrid_search",
         kwargs |-> WithIf(kw, filter_expr # "", "filter", filter_expr)]

\* api/search.py: the BM25 search call
KeywordCall(rd, rk) ==
    LET query == Get(rd, "query", "")
        filter_expr == Get(rd, "filter", "")
        kw0 == [data |-> <<query>>, output_fields |-> OutputFields,
                anns_field |-> "title_sparse",
                search_params |-> [metric_type |-> "BM25"],
                limit |-> Get(rd, "limit", DefaultLimit)]
        kw1 == WithIf(kw0, filter_expr # "", "filter", filter_expr)
        kw2 == WithIf(kw1, HighlightMode(rd) = "lexical", "highlighter", LexicalHighlighter)
    IN  [api |-> "search", kwargs |-> WithIf(kw2, Len(rk) > 0, "ranker", rk)]

\* faulty variant: the dense branch attaches the lexical highlighter too
SemanticCall_Highlights(rd, rk) ==
    LET query == Get(rd, "query", "")
        filter_expr == Get(rd, "filter", "")
        kw0 == [data |-> Embedding(query), output_fields |-> OutputFields,
                anns_field |-> "vector", limit |-> Get(rd, "limit", DefaultLimit)]
        kw1 == WithIf(kw0, filter_expr # "", "filter", filter_expr)
        kw2 == WithIf(kw1, HighlightMode(rd) = "lexical", "highlighter", LexicalHighlighter)
    IN  [api |-> "search", kwargs |-> WithIf(kw2, Len(rk) > 0, "ranker", rk)]

\* api/search.py: the dense search call
SemanticCall(rd, rk) ==
    LET query == Get(rd, "query", "")
        filter_expr == Get(rd, "filter", "")
        kw0 == [data |-> Embedding(query), output_fields |-> OutputFields,
                anns_field |-> "vector", limit |-> Get(rd, "limit", DefaultLimit)]
        kw1 == WithIf(kw0, filter_expr # "", "filter", filter_expr)
    IN  [api |-> "search", kwargs |-> WithIf(kw1, Len(rk) > 0, "ranker", rk)]

\* the retrieval call of api/search.py for the branch search_mode selects
RetrievalCall(rd, mode, rk) ==
    IF mode = "hybrid" THEN HybridCall(rd)
    ELSE IF mode = "keyword" THEN KeywordCall(rd, rk)
    ELSE SemanticCall(rd, rk)

\* backend/main.py: the one client.search call
BackendCall(rd, rk) ==
    LET query == Get(rd, "query", "")
        limit == Get(rd, "limit", DefaultLimit)
        kw == IF HighlightMode(rd) = "lexical"
              THEN [data |-> <<query>>, output_fields |-> OutputFields,
                    anns_field |-> "title_sparse",
                    search_params |-> [metric_type |-> "BM25"],
                    limit |-> limit, highlighter |-> LexicalHighlighter]
              ELSE WithIf([data |-> Embedding(query), output_fields |-> OutputFields,
                           anns_field |-> "vector", limit |-> limit],
                          HighlightMode(rd) = "semantic", "highlighter",
                          SemanticHighlighter(query))
    IN  [api |-> "search", kwargs |-> WithIf(kw, Len(rk) > 0, "ranker", rk)]

\* faulty variant: every branch embeds the query
NeedsEmbedding_Always(mode) == TRUE

\* whether the branch embeds the query first
NeedsEmbedding(mode) == mode # "keyword"

-----------------------------------------------------------------------------
(* Hybrid post-processing and the result normalizer *)
\* faulty variant: the fields are read from the hit itself
Entity_TopLevel(hit) == hit

\* entity = hit.get('entity', hit)
Entity(hit) == Get(hit, "entity", hit)

\* hit.get('score', hit.get('distance', 0))
ScoreOf(hit) == Get(hit, "score", Get(hit, "distance", 0))

\* faulty variant: the recency boost starts after 2022
Multiplier_StrictYear(hit) ==
    LET year == Get(Entity(hit), "year", 0)
        citations == Get(Entity(hit), "citationcount", 0)
        m1 == IF year > 2022 THEN (100 * 130) \div 100 ELSE 100
    IN  IF citations >= 500 THEN (m1 * 120) \div 100 ELSE m1

\* the recency / citation multiplier, in hundredths
Multiplier(hit) ==
    LET year == Get(Entity(hit), "year", 0)
        citations == Get(Entity(hit), "citationcount", 0)
        m1 == IF year >= 2022 THEN (100 * 130) \div 100 ELSE 100
    IN  IF citations >= 500 THEN (m1 * 120) \div 100 ELSE m1

\* hit['score'] = hit.get('score', hit.get('distance', 0)) * multiplier
Boosted(hit) == With(hit, "score", (ScoreOf(hit) * Multiplier(hit)) \div 100)

SortKey(hit) == Get(hit, "score", 0)

\* faulty variant: a hit is placed before the hits of equal key (an unstable sort)
RECURSIVE InsertDesc_Unstable(_, _)
InsertDesc_Unstable(sorted, hit) ==
    IF Len(sorted) = 0 THEN <<hit>>
    ELSE IF SortKey(sorted[Len(sorted)]) > SortKey(hit) THEN Append(sorted, hit)
    ELSE Append(InsertDesc_Unstable(SubSeq(sorted, 1, Len(sorted) - 1), hit),
                sorted[Len(sorted)])

\* sorted(hits, key=..., reverse=True): descending, equal keys keep their order
RECURSIVE InsertDesc(_, _)
InsertDesc(sorted, hit) ==
    IF Len(sorted) = 0 THEN <<hit>>
    ELSE IF SortKey(sorted[Len(sorted)]) >= SortKey(hit) THEN Append(sorted, hit)
    ELSE Append(InsertDesc(SubSeq(sorted, 1, Len(sorted) - 1), hit), sorted[Len(sorted)])

RECURSIVE SortedDesc(_)
SortedDesc(hits) ==
    IF Len(hits) = 0 THEN <<>>
    ELSE InsertDesc(SortedDesc(SubSeq(hits, 1, Len(hits) - 1)), hits[Len(hits)])

\* the hybrid branch after hybrid_search returned `hits`
HybridPostProcess(rd, hits) ==
    IF Truthy(rd, "use_boost_ranker") /\ Len(hits) > 0
    THEN SortedDesc([i \in 1..Len(hits) |-> Boosted(hits[i])])
    ELSE hits

\* faulty variant: every branch sorts its hits by score
PostProcess_AlwaysSorts(rd, mode, hits) ==
    IF mode = "hybrid" THEN HybridPostProcess(rd, hits) ELSE SortedDesc(hits)

\* result[0] after the branch `mode` of search_papers
PostProcess(rd, mode, hits) ==
    IF mode = "hybrid" THEN HybridPostProcess(rd, hits) ELSE hits

\* str() of an id
IntToStr(n) == <<"1", "2", "3", "4", "5">>[n]

HighlightedTitle(hit) ==
    IF "highlight" \in DOMAIN hit /\ "title" \in DOMAIN hit.highlight
    THEN LET fragments == Get(hit.highlight.title, "fragments", <<>>)
         IN  IF Len(fragments) > 0 THEN fragments[1] ELSE NONE
    ELSE NONE

\* one formatted paper
Paper(hit) ==
    LET entity == Entity(hit)
    IN  [id |-> IF "id" \in DOMAIN hit THEN IntToStr(hit.id) ELSE "",
         score |-> ScoreOf(hit),
         corpusid |-> Get(entity, "corpusid", 0),
         title |-> Get(entity, "title", ""),
         highlighted_title |-> HighlightedTitle(hit),
         year |-> Get(entity, "year", 0),
         citationcount |-> Get(entity, "citationcount", 0),
         url |-> Get(entity, "url", "")]

\* faulty variant: the loop stops one hit short
FormatResults_DropLast(hits) == [i \in 1..(Len(hits) - 1) |-> Paper(hits[i])]

\* the loop over result[0]
FormatResults(hits) == [i \in 1..Len(hits) |-> Paper(hits[i])]

\* the dict search_papers returns
SearchResponse(rd, mode, ps) ==
    [success |-> TRUE,
     query |-> Get(rd, "query", ""),
     papers |-> ps,
     options |-> [use_time_decay |-> Get(rd, "use_time_decay", FALSE),
                  use_boost |-> Get(rd, "use_boost", FALSE),
                  use_boost_ranker |-> Get(rd, "use_boost_ranker", FALSE),
                  highlight_mode |-> HighlightMode(rd),
                  search_mode |-> mode,
                  limit |-> Get(rd, "limit", DefaultLimit)]]

\* the SearchResponse backend/main.py returns
BackendResponse(rd, ps) ==
    [success |-> TRUE,
     query |-> Get(rd, "query", ""),
     papers |-> ps,
     options |-> [use_time_decay |-> Get(rd, "use_time_decay", FALSE),
                  use_boost |-> Get(rd, "use_boost", FALSE),
                  highlight_mode |-> HighlightMode(rd),
                  limit |-> Get(rd, "limit", DefaultLimit)]]

ErrorBody == [error |-> "str(e)"]

-----------------------------------------------------------------------------
(* Autocomplete: trimming, escaping, the LIKE filter *)
Alphabet == {"a", " ", "\\", "%", "_"}

RECURSIVE Strings(_)
Strings(n) ==
    IF n = 0 THEN {<<>>}
    ELSE LET shorter == Strings(n - 1)
         IN  shorter \cup {Append(s, c) : s \in {x \in shorter : Len(x) = n - 1},
                                         c \in Alphabet}

\* JSON bodies POSTed to the autocomplete endpoints (query is a list of characters)
AutocompleteRequests ==
    {EmptyDict} \cup {With(EmptyDict, "query", s) : s \in Strings(MaxLen)}
BackendAutocompleteRequests == {With(EmptyDict, "query", s) : s \in Strings(MaxLen)}

\* str.strip()
RECURSIVE LStrip(_)
LStrip(s) == IF Len(s) > 0 /\ s[1] = " " THEN LStrip(Tail(s)) ELSE s
RECURSIVE RStrip(_)
RStrip(s) == IF Len(s) > 0 /\ s[Len(s)] = " " THEN RStrip(SubSeq(s, 1, Len(s) - 1)) ELSE s
\* faulty variant: only the leading blanks are removed
Strip_LeadingOnly(s) == LStrip(s)

Strip(s) == RStrip(LStrip(s))

MIN_CHARS_API == 2
MIN_CHARS_BACKEND == 4
MinChars(m) == IF m = "backend/main" THEN MIN_CHARS_BACKEND ELSE MIN_CHARS_API

\* `not substring or len(substring) < minimum`
TooShort(m, substring) == Len(substring) = 0 \/ Len(substring) < MinChars(m)

\* str.replace(old, new) for a one-character old
RECURSIVE Replace(_, _, _)
Replace(s, old, new) ==
    IF Len(s) = 0 THEN <<>>
    ELSE (IF s[1] = old THEN new ELSE <<s[1]>>) \o Replace(Tail(s), old, new)

\* faulty variant: the backslash is escaped last, doubling the escapes just added
Escape_BackslashLast(substring) ==
    Replace(Replace(Replace(substring, "%", <<"\\", "%">>),
                    "_", <<"\\", "_">>),
            "\\", <<"\\", "\\">>)

\* substring.replace('\\', '\\\\').replace('%', '\\%').replace('_', '\\_')
Escape(substring) ==
    Replace(Replace(Replace(substring, "\\", <<"\\", "\\">>),
                    "%", <<"\\", "%">>),
            "_", <<"\\", "_">>)

\* f'title LIKE "%{safe}%"', as the pattern between the quotes
LikeFilter(safe) == [field |-> "title", op |-> "LIKE", pattern |-> <<"%">> \o safe \o <<"%">>]

QueryCall(rd) ==
    [api |-> "query",
     kwargs |-> [filter |-> LikeFilter(Escape(Strip(Get(rd, "query", <<>>)))),
                 output_fields |-> <<"title">>,
                 limit |-> Get(rd, "limit", 5)]]

\* replies of client.query
QueryReplies == {<<>>, <<[title |-> "t1"]>>, <<[title |-> "t1"], [title |-> "t2"]>>}
Titles(reply) == [i \in 1..Len(reply) |-> reply[i].title]

-----------------------------------------------------------------------------
(* The serving process: one request at a time *)
Modules == {"api/search", "api/autocomplete", "backend/main"}
IsBackend == module = "backend/main"

InitHttp ==
    /\ endpoint = NONE
    /\ pc = "idle"
    /\ request_data = EmptyDict
    /\ search_mode = NONE
    /\ ranker = <<>>
    /\ calls = <<>>
    /\ raw = <<>>
    /\ result = <<>>
    /\ papers = <<>>
    /\ statuses = <<>>
    /\ body = EmptyDict
    /\ exc = NONE
    /\ milvus_client = FALSE
    /\ openai_client = FALSE

Called(call, ok) == With(call, "ok", ok)

Raise(e) == pc' = "except" /\ exc' = e

\* get_milvus_client(): constructs on first use; the constructor may raise
GetMilvusClient(ok) ==
    IF milvus_client
    THEN /\ ok
         /\ UNCHANGED milvus_client
    ELSE milvus_client' = ok

MilvusCalls(ok) == IF milvus_client THEN <<>> ELSE <<Called([api |-> "MilvusClient"], ok)>>

\* get_openai_client()
GetOpenAIClient(ok) ==
    IF openai_client
    THEN /\ ok
         /\ UNCHANGED openai_client
    ELSE openai_client' = ok

OpenAICalls(ok) == IF openai_client THEN <<>> ELSE <<Called([api |-> "OpenAI"], ok)>>

\* do_POST of api/search.py up to the call of search_papers; the backend's
\* framework hands search() a validated SearchRequest
ReceiveSearch ==
    /\ pc = "idle"
    /\ module \in {"api/search", "backend/main"}
    /\ endpoint' = "search"
    /\ \/ /\ ~IsBackend
          /\ Raise("JSONDecodeError")
          /\ UNCHANGED request_data
       \/ /\ request_data' \in (IF IsBackend THEN BackendSearchRequests ELSE SearchRequests)
          /\ pc' = "search_papers"
          /\ UNCHANGED exc
    /\ UNCHANGED <<module, search_mode, ranker, calls, raw, result, papers, statuses,
                   body, milvus_client, openai_client>>
    /\ UNCHANGED <<clientVars, indexVars>>

\* options, search_mode, get_milvus_client(), the ranker functions
BuildSearch ==
    /\ pc = "search_papers"
    /\ search_mode' = (IF IsBackend THEN BackendModeOf(request_data)
                       ELSE SearchModeOf(request_data))
    /\ \E ok \in BOOLEAN :
          /\ GetMilvusClient(ok)
          /\ calls' = calls \o MilvusCalls(ok)
          /\ IF ~ok
             THEN Raise("MilvusException") /\ UNCHANGED ranker
             ELSE IF BoostIndexError(request_data)
             THEN Raise("IndexError") /\ UNCHANGED ranker
             ELSE /\ ranker' = (IF IsBackend THEN BackendFunctions(request_data)
                                ELSE Functions(request_data))
                  /\ pc' = (IF NeedsEmbedding(search_mode') THEN "embed" ELSE "retrieve")
                  /\ UNCHANGED exc
    /\ UNCHANGED <<module, endpoint, request_data, raw, result, papers, statuses, body,
                   openai_client>>
    /\ UNCHANGED <<clientVars, indexVars>>

\* get_embeddings(query)
GetEmbeddings ==
    /\ pc = "embed"
    /\ \E made \in BOOLEAN, ok \in BOOLEAN :
          /\ GetOpenAIClient(made)
          /\ IF ~made
             THEN /\ calls' = calls \o OpenAICalls(made)
                  /\ Raise("OpenAIError")
             ELSE /\ calls' = calls \o OpenAICalls(made)
                        \o <<Called([api |-> "embeddings.create",
                                     input |-> Get(request_data, "query", "")], ok)>>
                  /\ IF ok THEN pc' = "retrieve" /\ UNCHANGED exc
                     ELSE Raise("OpenAIError")
    /\ UNCHANGED <<module, endpoint, request_data, search_mode, ranker, raw, result,
                   papers, statuses, body, milvus_client>>
    /\ UNCHANGED <<clientVars, indexVars>>

\* client.search / client.hybrid_search, and the branch's post-processing
Retrieve ==
    /\ pc = "retrieve"
    /\ LET call == IF IsBackend THEN BackendCall(request_data, ranker)
                   ELSE RetrievalCall(request_data, search_mode, ranker)
       IN  \/ /\ calls' = Append(calls, Called(call, FALSE))
              /\ Raise("MilvusException")
              /\ UNCHANGED <<raw, result>>
           \/ \E hits \in StoreReplies(call.kwargs.limit) :
                 /\ calls' = Append(calls, Called(call, TRUE))
                 /\ raw' = hits
                 /\ result' = (IF IsBackend THEN hits
                               ELSE PostProcess(request_data, search_mode, hits))
                 /\ pc' = "format"
                 /\ UNCHANGED exc
    /\ UNCHANGED <<module, endpoint, request_data, search_mode, ranker, papers, statuses,
                   body, milvus_client, openai_client>>
    /\ UNCHANGED <<clientVars, indexVars>>

\* the loop over result[0]
FormatPapers ==
    /\ pc = "format"
    /\ papers' = FormatResults(result)
    /\ pc' = "respond"
    /\ UNCHANGED <<module, endpoint, request_data, search_mode, ranker, calls, raw,
                   result, statuses, body, exc, milvus_client, openai_client>>
    /\ UNCHANGED <<clientVars, indexVars>>

\* do_POST of api/autocomplete.py up to the length gate; the backend's framework
\* hands autocomplete() a validated AutocompleteRequest
ReceiveAutocomplete ==
    /\ pc = "idle"
    /\ module \in {"api/autocomplete", "backend/main"}
    /\ endpoint' = "autocomplete"
    /\ \/ /\ ~IsBackend
          /\ Raise("JSONDecodeError")
          /\ UNCHANGED request_data
       \/ /\ request_data' \in (IF IsBackend THEN BackendAutocompleteRequests
                                ELSE AutocompleteRequests)
          /\ pc' = "gate"
          /\ UNCHANGED exc
    /\ UNCHANGED <<module, search_mode, ranker, calls, raw, result, papers, statuses,
                   body, milvus_client, openai_client>>
    /\ UNCHANGED <<clientVars, indexVars>>

\* the minimum-length gate on the trimmed query
Gate ==
    /\ pc = "gate"
    /\ IF TooShort(module, Strip(Get(request_data, "query", <<>>)))
       THEN papers' = <<>> /\ pc' = "respond"
       ELSE UNCHANGED papers /\ pc' = "query"
    /\ UNCHANGED <<module, endpoint, request_data, search_mode, ranker, calls, raw,
                   result, statuses, body, exc, milvus_client, openai_client>>
    /\ UNCHANGED <<clientVars, indexVars>>

\* autocomplete(substring, limit): get_milvus_client(), client.query(...)
Autocomplete ==
    /\ pc = "query"
    /\ \E made \in BOOLEAN :
          /\ GetMilvusClient(made)
          /\ IF ~made
             THEN /\ calls' = calls \o MilvusCalls(made)
                  /\ Raise("MilvusException")
                  /\ UNCHANGED <<raw, papers>>
             ELSE \/ /\ calls' = calls \o MilvusCalls(made)
                           \o <<Called(QueryCall(request_data), FALSE)>>
                     /\ Raise("MilvusException")
                     /\ UNCHANGED <<raw, papers>>
                  \/ \E reply \in QueryReplies :
                        /\ calls' = calls \o MilvusCalls(made)
                              \o <<Called(QueryCall(request_data), TRUE)>>
                        /\ raw' = reply
                        /\ papers' = Titles(reply)
                        /\ pc' = "respond"
                        /\ UNCHANGED exc
    /\ UNCHANGED <<module, endpoint, request_data, search_mode, ranker, result, statuses,
                   body, openai_client>>
    /\ UNCHANGED <<clientVars, indexVars>>

\* the body of the success response
SuccessBody ==
    IF endpoint = "autocomplete" THEN [titles |-> papers]
    ELSE IF IsBackend THEN BackendResponse(request_data, papers)
    ELSE SearchResponse(request_data, search_mode, papers)

\* send_response(200), the headers, then json.dumps and wfile.write inside the
\* same try block: a failure there raises into the except clause.  The backend
\* returns its value to the framework, which writes the one response.
SendSuccess ==
    /\ pc = "respond"
    /\ statuses' = Append(statuses, 200)
    /\ \/ /\ body' = SuccessBody
          /\ pc' = "done"
          /\ UNCHANGED exc
       \/ /\ ~IsBackend
          /\ Raise("BrokenPipeError")
          /\ UNCHANGED body
    /\ UNCHANGED <<module, endpoint, request_data, search_mode, ranker, calls, raw,
                   result, papers, milvus_client, openai_client>>
    /\ UNCHANGED <<clientVars, indexVars>>

\* the except clause: send_response(500) and the error body; the backend raises
\* HTTPException(500) (search) or lets the framework answer 500 (autocomplete)
SendError ==
    /\ pc = "except"
    /\ statuses' = Append(statuses, 500)
    /\ body' = ErrorBody
    /\ pc' = "done"
    /\ UNCHANGED <<module, endpoint, request_data, search_mode, ranker, calls, raw,
                   result, papers, exc, milvus_client, openai_client>>
    /\ UNCHANGED <<clientVars, indexVars>>

\* the handler returned; the process waits for the next request, keeping its
\* module globals
Finish ==
    /\ pc = "done"
    /\ pc' = "idle"
    /\ endpoint' = NONE
    /\ request_data' = EmptyDict
    /\ search_mode' = NONE
    /\ ranker' = <<>>
    /\ calls' = <<>>
    /\ raw' = <<>>
    /\ result' = <<>>
    /\ papers' = <<>>
    /\ statuses' = <<>>
    /\ body' = EmptyDict
    /\ exc' = NONE
    /\ UNCHANGED <<module, milvus_client, openai_client>>
    /\ UNCHANGED <<clientVars, indexVars>>

-----------------------------------------------------------------------------
(* Threads of one process racing on the lazy getters (api/search.py) *)
Threads == 1..NumThreads

InitClients ==
    /\ tpc = [t \in Threads |-> "start"]
    /\ tmp = [t \in Threads |-> 0]
    /\ got = [t \in Threads |-> [milvus |-> 0, openai |-> 0]]
    /\ g_milvus = 0
    /\ g_openai = 0
    /\ constructed = [milvus |-> 0, openai |-> 0]

\* a request thread enters get_milvus_client() (search_papers, line 81)
CallGetMilvus(t) ==
    /\ tpc[t] = "start"
    /\ tpc' = [tpc EXCEPT ![t] = "m_test"]
    /\ UNCHANGED <<tmp, got, g_milvus, g_openai, constructed, httpVars, indexVars>>

\* if _milvus_client is None
TestMilvus(t) ==
    /\ tpc[t] = "m_test"
    /\ tpc' = [tpc EXCEPT ![t] = IF g_milvus = 0 THEN "m_new" ELSE "m_return"]
    /\ UNCHANGED <<tmp, got, g_milvus, g_openai, constructed, httpVars, indexVars>>

\* MilvusClient(uri=..., token=...): a fresh handle
ConstructMilvus(t) ==
    /\ tpc[t] = "m_new"
    /\ constructed' = [constructed EXCEPT !.milvus = @ + 1]
    /\ tmp' = [tmp EXCEPT ![t] = constructed.milvus + 1]
    /\ tpc' = [tpc EXCEPT ![t] = "m_store"]
    /\ UNCHANGED <<got, g_milvus, g_openai, httpVars, indexVars>>

\* _milvus_client = <the new handle>
StoreMilvus(t) ==
    /\ tpc[t] = "m_store"
    /\ g_milvus' = tmp[t]
    /\ tpc' = [tpc EXCEPT ![t] = "m_return"]
    /\ UNCHANGED <<tmp, got, g_openai, constructed, httpVars, indexVars>>

\* return _milvus_client; a keyword search never asks for the embedding client
ReturnMilvus(t) ==
    /\ tpc[t] = "m_return"
    /\ got' = [got EXCEPT ![t].milvus = g_milvus]
    /\ \E next \in {"o_test", "finished"} : tpc' = [tpc EXCEPT ![t] = next]
    /\ UNCHANGED <<tmp, g_milvus, g_openai, constructed, httpVars, indexVars>>

\* get_openai_client(): if _openai_client is None
TestOpenAI(t) ==
    /\ tpc[t] = "o_test"
    /\ tpc' = [tpc EXCEPT ![t] = IF g_openai = 0 THEN "o_new" ELSE "o_return"]
    /\ UNCHANGED <<tmp, got, g_milvus, g_openai, constructed, httpVars, indexVars>>

\* OpenAI(): a fresh handle
ConstructOpenAI(t) ==
    /\ tpc[t] = "o_new"
    /\ constructed' = [constructed EXCEPT !.openai = @ + 1]
    /\ tmp' = [tmp EXCEPT ![t] = constructed.openai + 1]
    /\ tpc' = [tpc EXCEPT ![t] = "o_store"]
    /\ UNCHANGED <<got, g_milvus, g_openai, httpVars, indexVars>>

\* _openai_client = <the new handle>
StoreOpenAI(t) ==
    /\ tpc[t] = "o_store"
    /\ g_openai' = tmp[t]
    /\ tpc' = [tpc EXCEPT ![t] = "o_return"]
    /\ UNCHANGED <<tmp, got, g_milvus, constructed, httpVars, indexVars>>

\* return _openai_client
ReturnOpenAI(t) ==
    /\ tpc[t] = "o_return"
    /\ got' = [got EXCEPT ![t].openai = g_openai]
    /\ tpc' = [tpc EXCEPT ![t] = "finished"]
    /\ UNCHANGED <<tmp, g_milvus, g_openai, constructed, httpVars, indexVars>>

-----------------------------------------------------------------------------
(* Runs of add_ngram_index against one store (scripts/setup_indexes.py) *)
Runs == 1..NumRuns

NGRAM_INDEX_NAME == "title_ngram"
NgramIndex == [name |-> NGRAM_INDEX_NAME, type |-> "NGRAM"]

\* what the title field may carry before the first run: the store keeps at most
\* one index per scalar field
InitialStores ==
    { {},
      {NgramIndex},
      {[name |-> "title_idx", type |-> "NGRAM"]},
      {[name |-> "title_idx", type |-> "INVERTED"]},
      {[name |-> NGRAM_INDEX_NAME, type |-> "INVERTED"]} }

\* messages of the exceptions create_index raises: when the very index already
\* exists, when the field carries another index, when the call itself fails
ExistsMessages ==
    { <<"index", "already", "exists">>,
      <<"Index", "Already", "Exist">>,
      <<"duplicate", "index">>,
      <<"index", "exists">> }
ConflictMessage == <<"at", "most", "one", "distinct", "index", "is", "allowed", "per", "field">>
FailureMessage == <<"connection", "refused">>

\* str.lower(), word by word
Lower(word) ==
    CASE word = "Index" -> "index"
      [] word = "Already" -> "already"
      [] word = "Exist" -> "exist"
      [] OTHER -> word

\* `needle in str(e).lower()`
InLower(needle, msg) == \E i \in 1..Len(msg) : Lower(msg[i]) = needle

\* faulty variant: the message is matched without lower()
TreatedAsRace_CaseSensitive(msg) ==
    (\E i \in 1..Len(msg) : msg[i] = "already")
    \/ (\E i \in 1..Len(msg) : msg[i] = "exists")
    \/ (\E i \in 1..Len(msg) : msg[i] = "duplicate")

\* the except clause of add_ngram_index: is the failure the race's?
TreatedAsRace(msg) ==
    InLower("already", msg) \/ InLower("exists", msg) \/ InLower("duplicate", msg)

IdleIndex ==
    /\ indexes = {}
    /\ rpc = [r \in Runs |-> "start"]
    /\ existing_indexes = [r \in Runs |-> {}]
    /\ todo = [r \in Runs |-> {}]
    /\ error_msg = [r \in Runs |-> <<>>]

InitIndex ==
    /\ indexes \in InitialStores
    /\ rpc = [r \in Runs |-> "start"]
    /\ existing_indexes = [r \in Runs |-> {}]
    /\ todo = [r \in Runs |-> {}]
    /\ error_msg = [r \in Runs |-> <<>>]

\* client.list_indexes(collection_name, field_name="title")
ListIndexes(r) ==
    /\ rpc[r] = "start"
    /\ existing_indexes' = [existing_indexes EXCEPT ![r] = {i.name : i \in indexes}]
    /\ rpc' = [rpc EXCEPT ![r] = "check_name"]
    /\ UNCHANGED <<indexes, todo, error_msg, httpVars, clientVars>>

\* if NGRAM_INDEX_NAME in existing_indexes: SKIPPED
CheckName(r) ==
    /\ rpc[r] = "check_name"
    /\ IF NGRAM_INDEX_NAME \in existing_indexes[r]
       THEN /\ rpc' = [rpc EXCEPT ![r] = "skipped_name"]
            /\ UNCHANGED todo
       ELSE /\ rpc' = [rpc EXCEPT ![r] = "describe"]
            /\ todo' = [todo EXCEPT ![r] = existing_indexes[r]]
    /\ UNCHANGED <<indexes, existing_indexes, error_msg, httpVars, clientVars>>

\* one turn of the loop over existing_indexes: describe_index answers with the
\* index's type, or raises and the exception is passed over
DescribeIndex(r) ==
    /\ rpc[r] = "describe"
    /\ todo[r] # {}
    /\ \E idx_name \in todo[r] :
          /\ todo' = [todo EXCEPT ![r] = @ \ {idx_name}]
          /\ \/ \E i \in indexes :
                   /\ i.name = idx_name
                   /\ rpc' = [rpc EXCEPT ![r] = IF i.type = "NGRAM" THEN "skipped_type"
                                                 ELSE "describe"]
             \/ UNCHANGED rpc
    /\ UNCHANGED <<indexes, existing_indexes, error_msg, httpVars, clientVars>>

\* the loop ended without a return: prepare_index_params / add_index
PrepareIndex(r) ==
    /\ rpc[r] = "describe"
    /\ todo[r] = {}
    /\ rpc' = [rpc EXCEPT ![r] = "create"]
    /\ UNCHANGED <<indexes, existing_indexes, todo, error_msg, httpVars, clientVars>>

\* the outcome of the except clause for an exception with message msg
Handled(msg) == IF TreatedAsRace(msg) THEN "skipped_race" ELSE "raised"

\* client.create_index(...) inside try / except
CreateIndex(r) ==
    /\ rpc[r] = "create"
    /\ \/ /\ indexes = {}
          /\ indexes' = {NgramIndex}
          /\ rpc' = [rpc EXCEPT ![r] = "added"]
          /\ UNCHANGED error_msg
       \/ /\ indexes = {NgramIndex}
          /\ rpc' = [rpc EXCEPT ![r] = "added"]
          /\ UNCHANGED <<indexes, error_msg>>
       \/ /\ indexes = {NgramIndex}
          /\ \E msg \in ExistsMessages :
                /\ error_msg' = [error_msg EXCEPT ![r] = msg]
                /\ rpc' = [rpc EXCEPT ![r] = Handled(msg)]
          /\ UNCHANGED indexes
       \/ /\ indexes # {}
          /\ indexes # {NgramIndex}
          /\ error_msg' = [error_msg EXCEPT ![r] = ConflictMessage]
          /\ rpc' = [rpc EXCEPT ![r] = Handled(ConflictMessage)]
          /\ UNCHANGED indexes
       \/ /\ error_msg' = [error_msg EXCEPT ![r] = FailureMessage]
          /\ rpc' = [rpc EXCEPT ![r] = Handled(FailureMessage)]
          /\ UNCHANGED indexes
    /\ UNCHANGED <<existing_indexes, todo, httpVars, clientVars>>

-----------------------------------------------------------------------------
(* Specifications *)

\* the serving process
Init ==
    /\ module \in Modules
    /\ InitHttp
    /\ InitClients
    /\ IdleIndex

Next ==
    \/ ReceiveSearch
    \/ BuildSearch
    \/ GetEmbeddings
    \/ Retrieve
    \/ FormatPapers
    \/ ReceiveAutocomplete
    \/ Gate
    \/ Autocomplete
    \/ SendSuccess
    \/ SendError
    \/ Finish

Spec == Init /\ [][Next]_vars

\* concurrent first use of the getters
InitThreads ==
    /\ module = "api/search"
    /\ InitHttp
    /\ InitClients
    /\ IdleIndex

NextThreads ==
    \E t \in Threads :
        \/ CallGetMilvus(t)
        \/ TestMilvus(t)
        \/ ConstructMilvus(t)
        \/ StoreMilvus(t)
        \/ ReturnMilvus(t)
        \/ TestOpenAI(t)
        \/ ConstructOpenAI(t)
        \/ StoreOpenAI(t)
        \/ ReturnOpenAI(t)

SpecThreads == InitThreads /\ [][NextThreads]_vars

\* sequential and interleaved runs of the provisioning script
InitRuns ==
    /\ module = "api/search"
    /\ InitHttp
    /\ InitClients
    /\ InitIndex

NextRuns ==
    \E r \in Runs :
        \/ ListIndexes(r)
        \/ CheckName(r)
        \/ DescribeIndex(r)
        \/ PrepareIndex(r)
        \/ CreateIndex(r)

SpecRuns == InitRuns /\ [][NextRuns]_vars

-----------------------------------------------------------------------------
(* Properties *)

\* C1: each lazily-created handle is constructed at most once under any
\* interleaving of concurrent first-use calls, and every caller of a getter
\* receives the same handle.
C1_ConstructedOnce ==
    /\ constructed.milvus <= 1
    /\ constructed.openai <= 1
    /\ \A t, u \in Threads :
          /\ (got[t].milvus # 0 /\ got[u].milvus # 0) => got[t].milvus = got[u].milvus
          /\ (got[t].openai # 0 /\ got[u].openai # 0) => got[t].openai = got[u].openai

NgramIndexes == {i \in indexes : i.type = "NGRAM"}

\* C2: over sequential and interleaved runs of add_ngram_index, the store never
\* carries more than one NGRAM index on title; a run goes on to create_index
\* only when its snapshot did not hold the index name, and a run that skipped
\* has called no create_index; an index is added only to a field that had no
\* NGRAM index; and a run whose create_index raised because the index already
\* existed ends as skipped, not raised.
C2_Idempotent ==
    /\ [](/\ Cardinality(NgramIndexes) <= 1
          /\ \A r \in Runs :
                /\ rpc[r] \in {"create", "added", "skipped_race", "raised"}
                      => NGRAM_INDEX_NAME \notin existing_indexes[r]
                /\ rpc[r] \in {"skipped_name", "skipped_type"} => error_msg[r] = <<>>
                /\ error_msg[r] \in ExistsMessages => rpc[r] = "skipped_race")
    /\ [][indexes' # indexes => (NgramIndexes = {} /\ indexes' = indexes \cup {NgramIndex})]_vars

\* C2 witness: two runs both passed the check; one added the index, the other's
\* create_index raised "already exists" and it ended as skipped.
C2_Witness ==
    \E r, q \in Runs :
        /\ rpc[r] = "added"
        /\ rpc[q] = "skipped_race"
        /\ error_msg[q] \in ExistsMessages
        /\ existing_indexes[q] = {}
        /\ indexes = {NgramIndex}

\* the handler of a search request on api/search.py answered 200
SearchAnswered ==
    /\ module = "api/search"
    /\ endpoint = "search"
    /\ pc = "done"
    /\ statuses = <<200>>

HybridBoosted ==
    /\ SearchAnswered
    /\ search_mode = "hybrid"
    /\ Truthy(request_data, "use_boost_ranker")
    /\ Len(raw) > 0

\* the place in the store's reply of the hit a returned paper was made from
\* (the hits of one reply differ in their id, one of them having none)
RawIndex(paper) ==
    CHOOSE k \in 1..Len(raw) :
        (IF "id" \in DOMAIN raw[k] THEN IntToStr(raw[k].id) ELSE "") = paper.id

\* C3: in hybrid mode with use_boost_ranker and a non-empty hit list, the
\* returned papers are in descending order of final score, and papers of equal
\* final score are in the order in which the store returned their hits.
C3_HybridBoostOrder ==
    HybridBoosted =>
        \A i, j \in 1..Len(body.papers) :
            i < j =>
                /\ body.papers[i].score >= body.papers[j].score
                /\ body.papers[i].score = body.papers[j].score
                      => RawIndex(body.papers[i]) < RawIndex(body.papers[j])

\* C3 witness: a boosted hybrid answer in which the sort moved a hit forward
\* and two papers tie on their final score.
C3_Witness ==
    /\ HybridBoosted
    /\ \E i, j \in 1..Len(body.papers) :
          i < j /\ RawIndex(body.papers[i]) > RawIndex(body.papers[j])
    /\ \E i, j \in 1..Len(body.papers) :
          i < j /\ body.papers[i].score = body.papers[j].score

\* the mode the claim names for a request body
ExpectedMode(rd) ==
    IF "search_mode" \in DOMAIN rd THEN rd.search_mode
    ELSE IF "highlight_mode" \in DOMAIN rd /\ rd.highlight_mode = "lexical" THEN "keyword"
    ELSE "semantic"

PlainSearchCalls == SelectSeq(calls, LAMBDA c : c.api = "search")

TierRanges(terms, t) ==
    /\ Len(terms) = 3
    /\ \A i \in 1..3 : terms[i].params.reranker = "boost"
    /\ terms[1].params.filter = [field |-> "citationcount", gt |-> t[1], le |-> t[2]]
    /\ terms[2].params.filter = [field |-> "citationcount", gt |-> t[2], le |-> t[3]]
    /\ terms[3].params.filter = [field |-> "citationcount", gt |-> t[3]]

RequestThresholds(rd) ==
    IF "boost_params" \in DOMAIN rd /\ "citation_thresholds" \in DOMAIN rd.boost_params
    THEN rd.boost_params.citation_thresholds
    ELSE <<10, 100, 1000>>

\* what the claim says of a keyword or semantic retrieval call, for the
\* requests selected by `others_off`
RankerComposition(others_off) ==
    \A k \in 1..Len(PlainSearchCalls) :
        LET kw == PlainSearchCalls[k].kwargs
            td == Truthy(request_data, "use_time_decay")
            ub == Truthy(request_data, "use_boost")
        IN  others_off =>
              /\ (td /\ ~ub) => ("ranker" \in DOMAIN kw /\ Len(kw.ranker) = 1
                                  /\ kw.ranker[1].params.reranker = "decay")
              /\ (ub /\ ~td) => ("ranker" \in DOMAIN kw
                                  /\ TierRanges(kw.ranker, RequestThresholds(request_data)))
              /\ (~td /\ ~ub) => "ranker" \notin DOMAIN kw

\* C5 as stated: only use_time_decay gives one term, only use_boost gives the
\* three tiers (t0,t1], (t1,t2], (t2,inf), neither gives no ranker.
C5_Original == RankerComposition(TRUE)

\* C5 amended: the same, for requests that do not set use_boost_ranker.
C5_RankerComposition == RankerComposition(~Truthy(request_data, "use_boost_ranker"))

\* C5 witness: a keyword or semantic call with only use_boost set, carrying
\* the three tiers of the request's own thresholds.
C5_Witness ==
    /\ Len(PlainSearchCalls) = 1
    /\ Truthy(request_data, "use_boost")
    /\ ~Truthy(request_data, "use_time_decay")
    /\ ~Truthy(request_data, "use_boost_ranker")
    /\ "boost_params" \in DOMAIN request_data
    /\ Len(PlainSearchCalls[1].kwargs.ranker) = 3

\* the trimmed query of the autocomplete request being handled, computed apart
\* from the handler: the characters between the first and the last non-blank
Trimmed(rd) ==
    LET q == IF "query" \in DOMAIN rd THEN rd.query ELSE <<>>
        solid == {i \in 1..Len(q) : q[i] # " "}
    IN  IF solid = {} THEN <<>>
        ELSE SubSeq(q, CHOOSE i \in solid : \A j \in solid : i <= j,
                       CHOOSE i \in solid : \A j \in solid : i >= j)

\* an autocomplete request, parsed, whose trimmed query is below the minimum
\* of its entry point, has passed the gate
ShortQueryHandled ==
    /\ endpoint = "autocomplete"
    /\ pc \in {"query", "respond", "except", "done"}
    /\ exc \notin {"JSONDecodeError"}
    /\ Len(Trimmed(request_data)) < (IF module = "api/autocomplete" THEN 2 ELSE 4)

\* C6: an autocomplete request whose trimmed query is shorter than 2
\* (api/autocomplete.py) or 4 (backend/main.py) characters is answered 200 with
\* an empty titles list, and neither the client constructor nor a query is
\* called while it is handled.
C6_ShortQueryNoStore ==
    ShortQueryHandled =>
        /\ pc # "query"
        /\ calls = <<>>
        /\ papers = <<>>
        /\ exc \in {NONE, "BrokenPipeError"}
        /\ pc = "done" => statuses[1] = 200
        /\ (pc = "done" /\ exc = NONE) => (statuses = <<200>> /\ body = [titles |-> <<>>])

\* C6 witness: the backend answered a three-character query (blanks around it)
\* with the empty list, in a process whose client did not yet exist.
C6_Witness ==
    /\ ShortQueryHandled
    /\ module = "backend/main"
    /\ Len(Trimmed(request_data)) = 3
    /\ Len(request_data.query) = 4
    /\ pc = "done"
    /\ statuses = <<200>>
    /\ body = [titles |-> <<>>]
    /\ ~milvus_client

Special == {"\\", "%", "_"}

\* the escaped text reads as a run of plain characters and of pairs
\* <backslash, special character>
RECURSIVE WellEscaped(_)
WellEscaped(safe) ==
    IF Len(safe) = 0 THEN TRUE
    ELSE IF safe[1] = "\\"
         THEN Len(safe) >= 2 /\ safe[2] \in Special /\ WellEscaped(SubSeq(safe, 3, Len(safe)))
         ELSE safe[1] \notin Special /\ WellEscaped(Tail(safe))

\* removing the escaping backslashes
RECURSIVE Unescape(_)
Unescape(safe) ==
    IF Len(safe) = 0 THEN <<>>
    ELSE IF safe[1] = "\\" /\ Len(safe) >= 2
         THEN <<safe[2]>> \o Unescape(SubSeq(safe, 3, Len(safe)))
         ELSE <<safe[1]>> \o Unescape(Tail(safe))

QueryCalls == SelectSeq(calls, LAMBDA c : c.api = "query")

\* C7: in the LIKE pattern of every query call, the text between the leading
\* and the trailing % has each backslash, percent and underscore of the
\* substring preceded by exactly one escaping backslash, and gives the
\* substring back when the escaping backslashes are removed.
C7_EscapeRoundTrip ==
    \A k \in 1..Len(QueryCalls) :
        LET pattern == QueryCalls[k].kwargs.filter.pattern
            safe == SubSeq(pattern, 2, Len(pattern) - 1)
            substring == Trimmed(request_data)
        IN  /\ pattern[1] = "%"
            /\ pattern[Len(pattern)] = "%"
            /\ WellEscaped(safe)
            /\ Unescape(safe) = substring
            /\ Len(safe) = Len(substring)
                  + Cardinality({i \in 1..Len(substring) : substring[i] \in Special})

\* C7 witness: a query call for a substring holding a backslash, a percent and
\* an underscore.
C7_Witness ==
    /\ Len(QueryCalls) = 1
    /\ \A c \in Special : \E i \in 1..Len(Trimmed(request_data)) : Trimmed(request_data)[i] = c

RetrievalCalls == SelectSeq(calls, LAMBDA c : c.api \in {"search", "hybrid_search"})
EmbeddingCalls == SelectSeq(calls, LAMBDA c : c.api = "embeddings.create")

\* C8: a search request makes at most one retrieval call, exactly one when it
\* is answered 200, and at most one embedding call: none in keyword mode, one
\* before the retrieval call in semantic and hybrid mode; a call that failed
\* is the last call of the request.
C8_CallsPerRequest ==
    (module = "api/search" /\ endpoint = "search") =>
        /\ Len(RetrievalCalls) <= 1
        /\ Len(EmbeddingCalls) <= 1
        /\ 200 \in {statuses[i] : i \in 1..Len(statuses)} => Len(RetrievalCalls) = 1
        /\ search_mode = "keyword" => Len(EmbeddingCalls) = 0
        /\ (search_mode \in {"semantic", "hybrid"} /\ Len(RetrievalCalls) = 1)
              => /\ Len(EmbeddingCalls) = 1
                 /\ EmbeddingCalls[1].ok
                 /\ \A i, j \in 1..Len(calls) :
                       (calls[i].api = "embeddings.create"
                          /\ calls[j].api \in {"search", "hybrid_search"}) => i < j
        /\ \A i \in 1..Len(calls) : ~calls[i].ok => i = Len(calls)

\* C8 witness: a hybrid request answered 200 after one embedding call and one
\* hybrid_search call.
C8_Witness ==
    /\ SearchAnswered
    /\ search_mode = "hybrid"
    /\ Len(EmbeddingCalls) = 1
    /\ Len(RetrievalCalls) = 1
    /\ RetrievalCalls[1].api = "hybrid_search"

HitId(hit) == IF "id" \in DOMAIN hit THEN IntToStr(hit.id) ELSE ""

\* C9: a search request whose body cannot be parsed, or whose embedding call or
\* store call fails, is answered 500 with a body holding only an error
\* message; a body with papers is sent only under a lone status 200 and holds
\* one paper for each hit the store returned.
C9_AllOrNothing ==
    endpoint = "search" =>
        /\ (pc = "done" /\ exc \in {"JSONDecodeError", "OpenAIError", "MilvusException"})
              => (statuses = <<500>> /\ DOMAIN body = {"error"})
        /\ "papers" \in DOMAIN body
              => /\ statuses = <<200>>
                 /\ exc = NONE
                 /\ Len(body.papers) = Len(raw)
                 /\ \A k \in 1..Len(raw) :
                       \E i \in 1..Len(body.papers) : body.papers[i].id = HitId(raw[k])

\* C9 witness: the store call failed after a successful embedding call and
\* the answer is the lone 500.
C9_Witness ==
    /\ endpoint = "search"
    /\ pc = "done"
    /\ exc = "MilvusException"
    /\ Len(EmbeddingCalls) = 1
    /\ Len(RetrievalCalls) = 1
    /\ statuses = <<500>>
    /\ body = ErrorBody

\* C10: a POST to the serverless handlers sends exactly one status line, never
\* a 200 followed by a 500, also when writing the success body fails.
C10_OneStatusLine ==
    module \in {"api/search", "api/autocomplete"} =>
        /\ Len(statuses) <= 1
        /\ pc = "done" => Len(statuses) = 1

\* a search request was answered 200 with a body of papers
PapersSent ==
    /\ endpoint = "search"
    /\ pc = "done"
    /\ statuses = <<200>>
    /\ "papers" \in DOMAIN body

BoostedHybrid ==
    /\ module = "api/search"
    /\ search_mode = "hybrid"
    /\ "use_boost_ranker" \in DOMAIN request_data
    /\ request_data.use_boost_ranker = TRUE

\* C11: the papers of a 200 answer are one per hit of the list the normalizer
\* was given, in the same order; for every request but a hybrid one with
\* use_boost_ranker the i-th paper is made from the i-th hit of the store's
\* reply.
C11_OrderPreserved ==
    PapersSent =>
        /\ Len(body.papers) = Len(result)
        /\ \A i \in 1..Len(result) : body.papers[i].id = HitId(result[i])
        /\ ~BoostedHybrid =>
              /\ Len(body.papers) = Len(raw)
              /\ \A i \in 1..Len(raw) :
                    /\ body.papers[i].id = HitId(raw[i])
                    /\ body.papers[i].score =
                          (IF "score" \in DOMAIN raw[i] THEN raw[i].score
                           ELSE IF "distance" \in DOMAIN raw[i] THEN raw[i].distance
                           ELSE 0)

\* C11 witness: a keyword or semantic answer of three papers whose hits the
\* store did not return in descending order of score.
C11_Witness ==
    /\ PapersSent
    /\ search_mode \in {"keyword", "semantic"}
    /\ Len(body.papers) = 3
    /\ body.papers[1].score < body.papers[2].score
    /\ body.papers[1].id = HitId(raw[1])

Present(d, k) == k \in DOMAIN d

\* the record the fields of a hit are read from, as the claim has it
FieldsOf(hit) == IF Present(hit, "entity") THEN hit.entity ELSE hit

\* the paper the claim describes for a hit
ExpectedPaper(hit) ==
    LET e == FieldsOf(hit)
    IN  [id |-> IF Present(hit, "id") THEN <<"1", "2", "3", "4", "5">>[hit.id] ELSE "",
         score |-> IF Present(hit, "score") THEN hit.score
                   ELSE IF Present(hit, "distance") THEN hit.distance ELSE 0,
         corpusid |-> IF Present(e, "corpusid") THEN e.corpusid ELSE 0,
         title |-> IF Present(e, "title") THEN e.title ELSE "",
         highlighted_title |->
             IF /\ Present(hit, "highlight")
                /\ Present(hit.highlight, "title")
                /\ Present(hit.highlight.title, "fragments")
                /\ Len(hit.highlight.title.fragments) > 0
             THEN hit.highlight.title.fragments[1]
             ELSE NONE,
         year |-> IF Present(e, "year") THEN e.year ELSE 0,
         citationcount |-> IF Present(e, "citationcount") THEN e.citationcount ELSE 0,
         url |-> IF Present(e, "url") THEN e.url ELSE ""]

\* C12: every paper of a 200 answer carries the defaults and the highlight rule:
\* 0 for a missing citationcount, year or corpusid, "" for a missing url, title
\* or id, the score, else the distance, else 0, the first title fragment when
\* there is one and no highlighted_title otherwise, all fields but id, score
\* and highlight being read from the nested entity when the hit has one.
C12_NormalizationDefaults ==
    PapersSent =>
        \A i \in 1..Len(body.papers) :
            i <= Len(result) => body.papers[i] = ExpectedPaper(result[i])

\* C12 witness: one answer holds a paper with a highlighted title, a paper whose
\* hit had an empty fragment list, no id and no title, and a paper whose hit
\* had neither score nor distance.
C12_Witness ==
    /\ PapersSent
    /\ \E i \in 1..Len(body.papers) : body.papers[i].highlighted_title = "<mark>t4</mark>"
    /\ \E i \in 1..Len(body.papers) :
          /\ body.papers[i].id = ""
          /\ body.papers[i].title = ""
          /\ body.papers[i].highlighted_title = NONE
          /\ body.papers[i].corpusid = 15
    /\ \E i \in 1..Len(body.papers) :
          /\ body.papers[i].score = 0
          /\ body.papers[i].year = 0
          /\ body.papers[i].url = ""

ModeAndRankingFields ==
    {"search_mode", "highlight_mode", "use_boost_ranker", "use_time_decay",
     "time_decay_params", "use_boost", "boost_params"}

\* the request being served by api/search.py sets none of those fields
BareRequest ==
    /\ module = "api/search"
    /\ endpoint = "search"
    /\ DOMAIN request_data \cap ModeAndRankingFields = {}

HasLexicalHighlighter(c) ==
    /\ "highlighter" \in DOMAIN c.kwargs
    /\ c.kwargs.highlighter.kind = "LexicalHighlighter"

C13_WitnessSemanticLexical ==
    /\ SearchAnswered
    /\ search_mode = "semantic"
    /\ Truthy(request_data, "use_time_decay") = FALSE
    /\ "highlight_mode" \in DOMAIN request_data
    /\ request_data.highlight_mode = "lexical"
    /\ Len(RetrievalCalls) = 1

\* the places of the calls of one api in the request's call log
CallsOf(api) == {i \in 1..Len(calls) : calls[i].api = api}

\* the factor of the claim, in ten-thousandths
BoostFactor(hit) ==
    LET e == FieldsOf(hit)
        recent == Present(e, "year") /\ e.year >= 2022
        cited == Present(e, "citationcount") /\ e.citationcount >= 500
    IN  (IF recent THEN 130 ELSE 100) * (IF cited THEN 120 ELSE 100)

StoreScore(hit) ==
    IF Present(hit, "score") THEN hit.score
    ELSE IF Present(hit, "distance") THEN hit.distance ELSE 0

\* C14: every hybrid_search call carries the rank-fusion ranker and nothing
\* else as its ranker; in a 200 answer of a hybrid request each paper's score
\* is the store's score (or distance) times 1.3 for year >= 2022 and times 1.2
\* for citationcount >= 500 when use_boost_ranker is set, and the store's score
\* itself, in the store's order, when it is not, whatever use_time_decay and
\* use_boost say.
C14_HybridScores ==
    (module = "api/search" /\ endpoint = "search") =>
        /\ \A i \in CallsOf("hybrid_search") : calls[i].kwargs.ranker = "RRFRanker"
        /\ (PapersSent /\ search_mode = "hybrid") =>
              /\ Cardinality(CallsOf("hybrid_search")) = 1
              /\ CallsOf("search") = {}
              /\ Len(body.papers) = Len(raw)
              /\ \A i \in 1..Len(body.papers) :
                    LET hit == raw[RawIndex(body.papers[i])]
                    IN  IF BoostedHybrid
                        THEN body.papers[i].score =
                                 (StoreScore(hit) * BoostFactor(hit)) \div 10000
                        ELSE /\ body.papers[i].score = StoreScore(raw[i])
                             /\ body.papers[i].id = HitId(raw[i])

\* C14 witness: a hybrid request with use_boost_ranker, use_time_decay and
\* use_boost was answered with a paper boosted by 1.3 alone and a paper
\* boosted by 1.2 alone.
C14_Witness ==
    /\ PapersSent
    /\ BoostedHybrid
    /\ Truthy(request_data, "use_time_decay")
    /\ Truthy(request_data, "use_boost")
    /\ \E i \in 1..Len(body.papers) : body.papers[i].id = "2" /\ body.papers[i].score = 1300
    /\ \E i \in 1..Len(body.papers) : body.papers[i].id = "3" /\ body.papers[i].score = 1200

\* C14 witness without use_boost_ranker: use_time_decay and use_boost are set
\* and the papers carry the store's scores in the store's order.
C14_WitnessUnboosted ==
    /\ PapersSent
    /\ module = "api/search"
    /\ search_mode = "hybrid"
    /\ ~BoostedHybrid
    /\ Truthy(request_data, "use_time_decay")
    /\ Truthy(request_data, "use_boost")
    /\ Len(body.papers) = 2
    /\ body.papers[1].score < body.papers[2].score

\* the retrieval path a call belongs to
PathOf(c) ==
    IF c.api = "hybrid_search" THEN "hybrid"
    ELSE IF c.kwargs.anns_field = "title_sparse" THEN "keyword"
    ELSE "semantic"

\* C15: the search_mode echoed in the options of a 200 answer names the
\* retrieval path that was executed: hybrid for hybrid_search, keyword for a
\* BM25 search on title_sparse, semantic for a dense search on vector.
C15_EchoNamesPath ==
    (SearchAnswered /\ "options" \in DOMAIN body) =>
        /\ Len(RetrievalCalls) = 1
        /\ body.options.search_mode = PathOf(RetrievalCalls[1])

=============================================================================
